---- MODULE Spec2Model ----
(***************************************************************************)
(* A model of the retry package (src/retry.go): the Retrier policy, its    *)
(* two retry loops Run and RunContext, the terminal-error wrapper Stop and *)
(* the backoff computation getnextBackoff.                                 *)
(*                                                                         *)
(* Durations are counted in units of 100 ms, so that DefaultInitialDelay   *)
(* (200 ms) is 2 and DefaultMaxDelay (1000 ms) is 10.  Go's int64 is       *)
(* modelled by a two's complement word of WordBits bits: every product and *)
(* shift is wrapped to that width, as the hardware wraps it to 64.         *)
(***************************************************************************)
EXTENDS Integers, Sequences, FiniteSets, TLC

----------------------------------------------------------------------------
(* Bounds of the model *)

\* width of the machine word standing for int64 / time.Duration
WordBits == 6

\* NewRetrier is called with maxTries in -1 .. MaxTriesArg
MaxTriesArg == 3

\* strategies are made with maxAttempts in 0 .. MaxDoAttempts
MaxDoAttempts == 4

\* concurrent runs share a policy built with maxTries in 1 .. MaxConcTries
MaxConcTries == 2

\* NewRetrier is called with initialDelay and maxDelay in -1 .. MaxDelayArg
MaxDelayArg == 2

\* getnextBackoff is applied to attempts in 0 .. MaxAttemptsArg
MaxAttemptsArg == 8

----------------------------------------------------------------------------
(* Program constants: src/retry.go, lines 11-15 *)

DefaultMaxTries == 5

DefaultInitialDelay == 2

DefaultMaxDelay == 10

----------------------------------------------------------------------------
(* Error values *)

\* the identities of the plain errors an operation may return
ErrIds == {"e1", "e2"}

\* the nil error
Nil == [kind |-> "nil"]

\* a plain (retryable) error value
Err(x) == [kind |-> "err", id |-> x]

\* Stop(err) wraps err in a terminalError; err may be any error value, nil included
Stop(e) == [kind |-> "terminal", e |-> e]

\* the type switch `case terminalError`
IsTerminal(v) == v.kind = "terminal"

PlainErrors == {Err(x) : x \in ErrIds}

TerminalErrors == {Stop(e) : e \in PlainErrors \cup {Nil}}

\* everything funcToRetry may return
OpResults == {Nil} \cup PlainErrors \cup TerminalErrors

----------------------------------------------------------------------------
(* Machine arithmetic *)

\* the largest value of the word
MaxInt == 2^(WordBits - 1) - 1

\* two's complement wrap-around of an integer to the word
Wrap(x) ==
    LET m == x % (2^WordBits)
    IN  IF m > MaxInt THEN m - 2^WordBits ELSE m

\* 1 << uint(n) evaluated in the word: a shift count of the word's width or
\* more gives 0, a negative n converts to a huge unsigned count
Shl1(n) ==
    IF n < 0 \/ n >= WordBits THEN 0 ELSE Wrap(2^n)

min(a, b) == IF a > b THEN b ELSE a

----------------------------------------------------------------------------
(* The jitter source and the backoff computation *)

\* rand.Int63n(n) panics if n <= 0
Int63nPanics(n) == n <= 0

\* rand.Int63n(n) returns a number in [0, n)
Int63nValues(n) == 0 .. (n - 1)

\* a getnextBackoff without the fallback for a negative product
BackoffBoundNoNegativeCheck(attempts, initialDelay, maxDelay) ==
    LET backoff == Wrap(initialDelay * Shl1(attempts))
    IN  IF backoff = 0 THEN maxDelay ELSE backoff

\* a getnextBackoff whose exponent is one less: the bound is initialDelay * 2^(attempts-1)
BackoffBoundHalf(attempts, initialDelay, maxDelay) ==
    LET backoff == Wrap(initialDelay * Shl1(attempts - 1))
    IN  IF backoff = 0 THEN maxDelay
        ELSE IF backoff < 0 THEN maxDelay
        ELSE backoff

\* the bound getnextBackoff hands to randInt63n
BackoffBound(attempts, initialDelay, maxDelay) ==
    LET backoff == Wrap(initialDelay * Shl1(attempts))
    IN  IF backoff = 0 THEN maxDelay
        ELSE IF backoff < 0 THEN maxDelay
        ELSE backoff

\* a getnextBackoff that does not clamp the drawn value to maxDelay
getnextBackoffNoClamp(attempts, initialDelay, maxDelay) ==
    LET bound == BackoffBound(attempts, initialDelay, maxDelay)
    IN  IF Int63nPanics(bound)
        THEN {[panic |-> TRUE, d |-> 0]}
        ELSE {[panic |-> FALSE, d |-> j] : j \in Int63nValues(bound)}

\* the outcomes of getnextBackoff: a panic of the random draw, or
\* min(maxDelay, j) for a drawn j
getnextBackoff(attempts, initialDelay, maxDelay) ==
    LET bound == BackoffBound(attempts, initialDelay, maxDelay)
    IN  IF Int63nPanics(bound)
        THEN {[panic |-> TRUE, d |-> 0]}
        ELSE {[panic |-> FALSE, d |-> min(maxDelay, j)] : j \in Int63nValues(bound)}

----------------------------------------------------------------------------
(* The policy *)

\* a NewRetrier that keeps an argument of 0
NewRetrierKeepsZero(maxTries, initialDelay, maxDelay) ==
    [maxTries     |-> IF maxTries < 0 THEN DefaultMaxTries ELSE maxTries,
     initialDelay |-> IF initialDelay < 0 THEN DefaultInitialDelay ELSE initialDelay,
     maxDelay     |-> IF maxDelay < 0 THEN DefaultMaxDelay ELSE maxDelay]

\* NewRetrier: each argument <= 0 is set to its default
NewRetrier(maxTries, initialDelay, maxDelay) ==
    [maxTries     |-> IF maxTries <= 0 THEN DefaultMaxTries ELSE maxTries,
     initialDelay |-> IF initialDelay <= 0 THEN DefaultInitialDelay ELSE initialDelay,
     maxDelay     |-> IF maxDelay <= 0 THEN DefaultMaxDelay ELSE maxDelay]

\* the zero value Retrier{}
ZeroRetrier == [maxTries |-> 0, initialDelay |-> 0, maxDelay |-> 0]

----------------------------------------------------------------------------
VARIABLES
    r,          \* the Retrier: [maxTries, initialDelay, maxDelay]
    built,      \* how r was made: the NewRetrier call and its arguments, or the zero value
    mode,       \* "Run" or "RunContext" once a run has started
    pc,         \* where the run is
    attempts,   \* the loop's local attempts
    err,        \* the loop's local err: the result of the latest invocation
    results,    \* the results of the invocations of funcToRetry, in order
    ret,        \* the value the run returned
    exit,       \* the return statement the run left by
    waits,      \* the number of backoff waits started
    delay,      \* the duration of the current backoff wait
    timerFired, \* RunContext: the timer's channel holds a value
    ctxDone,    \* RunContext: ctx.Done() is closed
    ctxAtReturn,\* RunContext: ctx.Done() was closed when the latest invocation returned
    elapsed,    \* the number of backoff waits that ran to their end
    measure,    \* whether the run's waits are summed up
    waited,     \* the sum of the durations of the backoff waits started, when measured
    bk,         \* an application of getnextBackoff on its own
    runs,       \* concurrent runs on the one Retrier r: each run's own state
    att,        \* concurrent runs: the attempts counters, one per call frame
    randMux,    \* concurrent runs: the holder of randMux, 0 when unlocked
    strategy,   \* Do: the BackoffStrategy closure, its captured attempts included
    dos         \* Do: the runs of Do and DoWithContext that use strategy

\* what a run keeps track of beside the program's own state
\* the sum of the waits and whether it is kept
waitVars == <<measure, waited>>

trackVars == <<ctxAtReturn, elapsed, waitVars>>

runVars == <<r, built, mode, pc, attempts, err, results, ret, exit, waits, delay,
             timerFired, ctxDone, trackVars>>

\* the state of the runs that share r and the jitter source
concVars == <<runs, att, randMux>>

\* the state of the runs of Do and DoWithContext and of their strategy
doVars == <<strategy, dos>>

\* what the steps of the single run leave alone
asideVars == <<bk, concVars, doVars>>

vars == <<runVars, asideVars>>

\* the runs that execute concurrently
RunIds == {1, 2}

\* a run that has not been called yet
\* (waits counts the backoff waits begun and waitAt is the attempts that the
\* latest of them was computed from)
IdleRun == [mode |-> "none", pc |-> "ready", err |-> Nil, results |-> <<>>, ret |-> Nil,
            delay |-> 0, timerFired |-> FALSE, ctxDone |-> FALSE, waits |-> 0,
            waitAt |-> 0]

NoRuns ==
    /\ runs = [i \in RunIds |-> IdleRun]
    /\ att = [i \in RunIds |-> 0]
    /\ randMux = 0

\* no strategy made yet
NoStrategy == [kind |-> "none", maxAttempts |-> 0, delay |-> 0, maxDelay |-> 0,
               attempts |-> 0]

\* a run of Do or DoWithContext not yet called
\* (delay and timerFired are the loop's nextDuration and timer, which are
\* gone when the wait is over; loaded is the value read by attempts++ until it
\* is written back)
IdleDo == [fn |-> "none", pc |-> "ready", n |-> 0, err |-> Nil, ret |-> Nil, delay |-> 0,
           loaded |-> 0, timerFired |-> FALSE, ctxDone |-> FALSE]

NoDo ==
    /\ strategy = NoStrategy
    /\ dos = [i \in RunIds |-> IdleDo]

NoBackoff == [applied |-> FALSE, attempts |-> 0, initialDelay |-> 0, maxDelay |-> 0,
              bound |-> 0, panic |-> FALSE, d |-> 0]

Init ==
    /\ r = ZeroRetrier
    /\ built = [how |-> "none", maxTries |-> 0, initialDelay |-> 0, maxDelay |-> 0]
    /\ mode = "none"
    /\ pc = "new"
    /\ attempts = 0
    /\ err = Nil
    /\ results = <<>>
    /\ ret = Nil
    /\ exit = "none"
    /\ waits = 0
    /\ delay = 0
    /\ timerFired = FALSE
    /\ ctxDone = FALSE
    /\ ctxAtReturn = FALSE
    /\ elapsed = 0
    /\ measure = FALSE
    /\ waited = 0
    /\ bk = NoBackoff
    /\ NoRuns
    /\ NoDo

----------------------------------------------------------------------------
(* Construction *)

\* r := NewRetrier(mt, id, md)
CallNewRetrier(mt, id, md) ==
    /\ pc = "new"
    /\ r' = NewRetrier(mt, id, md)
    /\ built' = [how |-> "NewRetrier", maxTries |-> mt, initialDelay |-> id, maxDelay |-> md]
    /\ pc' = "ready"
    /\ UNCHANGED <<mode, attempts, err, results, ret, exit, waits, delay,
                   timerFired, ctxDone, trackVars, asideVars>>

\* r := Retrier{}
UseZeroValue ==
    /\ pc = "new"
    /\ r' = ZeroRetrier
    /\ built' = [how |-> "zero", maxTries |-> 0, initialDelay |-> 0, maxDelay |-> 0]
    /\ pc' = "ready"
    /\ UNCHANGED <<mode, attempts, err, results, ret, exit, waits, delay,
                   timerFired, ctxDone, trackVars, asideVars>>

----------------------------------------------------------------------------
(* Run *)

\* r.Run(funcToRetry) is called: attempts := 0
CallRun ==
    /\ pc = "ready"
    /\ ~ctxDone
    /\ mode' = "Run"
    /\ attempts' = 0
    /\ pc' = "call"
    /\ UNCHANGED <<r, built, err, results, ret, exit, waits, delay, timerFired,
                   ctxDone, trackVars, asideVars>>

\* Run: `if err == nil`
RunSucceeded(v) == v = Nil

\* a Run whose attempt check lets one more attempt through
RunLastAttemptLate(a) == a = r.maxTries + 1

\* Run: `if attempts == r.maxTries`
RunLastAttempt(a) == a = r.maxTries

\* a Run that returns the terminal wrapper as it is
RunUnwrapKeepsWrapper(v) == v

\* Run: `return v.e`
RunUnwrap(v) == v.e

\* one iteration of Run's loop, funcToRetry returning v, up to the return or
\* to the start of time.Sleep
RunLoop(v) ==
    /\ mode = "Run"
    /\ pc = "call"
    /\ results' = Append(results, v)
    /\ err' = v
    /\ IF RunSucceeded(v)
       THEN /\ ret' = Nil
            /\ exit' = "success"
            /\ pc' = "done"
            /\ UNCHANGED <<attempts, waits, delay>>
       ELSE /\ attempts' = attempts + 1
            /\ IF RunLastAttempt(attempts + 1)
               THEN /\ ret' = v
                    /\ exit' = "exhausted"
                    /\ pc' = "done"
                    /\ UNCHANGED <<waits, delay>>
               ELSE IF IsTerminal(v)
               THEN /\ ret' = RunUnwrap(v)
                    /\ exit' = "terminal"
                    /\ pc' = "done"
                    /\ UNCHANGED <<waits, delay>>
               ELSE \E o \in getnextBackoff(attempts + 1, r.initialDelay, r.maxDelay) :
                      IF o.panic
                      THEN /\ pc' = "panic"
                           /\ exit' = "panic"
                           /\ UNCHANGED <<ret, waits, delay>>
                      ELSE /\ pc' = "sleep"
                           /\ delay' = o.d
                           /\ waits' = waits + 1
                           /\ UNCHANGED <<ret, exit>>
    /\ waited' = IF measure /\ pc' = "sleep" THEN waited + delay' ELSE waited
    /\ UNCHANGED <<r, built, mode, timerFired, ctxDone, ctxAtReturn, elapsed, measure, asideVars>>

\* time.Sleep returns: the loop goes round
SleepReturns ==
    /\ pc = "sleep"
    /\ pc' = "call"
    /\ elapsed' = elapsed + 1
    /\ UNCHANGED <<r, built, mode, attempts, err, results, ret, exit, waits, delay,
                   timerFired, ctxDone, ctxAtReturn, waitVars, asideVars>>

----------------------------------------------------------------------------
(* RunContext *)

\* r.RunContext(ctx, funcToRetry) is called: attempts := 0.  The context may
\* already be done.
\* a RunContext that looks at its context before the first invocation
CallRunContextChecksDone ==
    /\ pc = "ready"
    /\ mode' = "RunContext"
    /\ attempts' = 0
    /\ pc' = IF ctxDone THEN "done" ELSE "call"
    /\ exit' = IF ctxDone THEN "cancelled" ELSE exit
    /\ UNCHANGED <<r, built, err, results, ret, waits, delay, timerFired,
                   ctxDone, trackVars, asideVars>>

CallRunContext ==
    /\ pc = "ready"
    /\ mode' = "RunContext"
    /\ attempts' = 0
    /\ pc' = "call"
    /\ UNCHANGED <<r, built, err, results, ret, exit, waits, delay, timerFired,
                   ctxDone, trackVars, asideVars>>

\* a RunContext that takes no result for a success
RunContextSucceededNever(v) == FALSE

\* RunContext: `if err == nil`
RunContextSucceeded(v) == v = Nil

\* a RunContext whose attempt check lets one more attempt through
RunContextLastAttemptLate(a) == a = r.maxTries + 1

\* RunContext: `if attempts == r.maxTries`
RunContextLastAttempt(a) == a = r.maxTries

\* a RunContext that returns the terminal wrapper itself
RunContextUnwrapKeepsWrapper(v) == v

\* RunContext: `return v.e`
RunContextUnwrap(v) == v.e

\* a RunContext that answers a cancellation with an error of its own
RunContextCancelledOwnError(e) == Err("context canceled")

\* RunContext: `case <-ctx.Done(): return err`
RunContextCancelled(e) == e

\* one iteration of RunContext's loop, funcToRetry returning v, up to the
\* return or to the select, whose timer has just been created
RunContextLoop(v) ==
    /\ mode = "RunContext"
    /\ pc = "call"
    /\ results' = Append(results, v)
    /\ err' = v
    /\ IF RunContextSucceeded(v)
       THEN /\ ret' = Nil
            /\ exit' = "success"
            /\ pc' = "done"
            /\ UNCHANGED <<attempts, waits, delay>>
       ELSE /\ attempts' = attempts + 1
            /\ IF RunContextLastAttempt(attempts + 1)
               THEN /\ ret' = v
                    /\ exit' = "exhausted"
                    /\ pc' = "done"
                    /\ UNCHANGED <<waits, delay>>
               ELSE IF IsTerminal(v)
               THEN /\ ret' = RunContextUnwrap(v)
                    /\ exit' = "terminal"
                    /\ pc' = "done"
                    /\ UNCHANGED <<waits, delay>>
               ELSE \E o \in getnextBackoff(attempts + 1, r.initialDelay, r.maxDelay) :
                      IF o.panic
                      THEN /\ pc' = "panic"
                           /\ exit' = "panic"
                           /\ UNCHANGED <<ret, waits, delay>>
                      ELSE /\ pc' = "select"
                           /\ delay' = o.d
                           /\ waits' = waits + 1
                           /\ UNCHANGED <<ret, exit>>
    /\ timerFired' = FALSE
    /\ ctxAtReturn' = ctxDone
    /\ waited' = IF measure /\ pc' = "select" THEN waited + delay' ELSE waited
    /\ UNCHANGED <<r, built, mode, ctxDone, elapsed, measure, asideVars>>

\* the timer elapses before the select has looked at its channels
TimerFires ==
    /\ pc = "select"
    /\ ~timerFired
    /\ timerFired' = TRUE
    /\ UNCHANGED <<r, built, mode, pc, attempts, err, results, ret, exit, waits,
                   delay, ctxDone, trackVars, asideVars>>

\* a select whose ctx.Done() case goes round the loop instead of returning
SelectContinuesOnDone ==
    /\ pc = "select"
    /\ \/ /\ timerFired
          /\ pc' = "call"
          /\ elapsed' = elapsed + 1
       \/ /\ ctxDone
          /\ pc' = "call"
          /\ UNCHANGED elapsed
       \/ /\ ~timerFired
          /\ ~ctxDone
          /\ pc' = "blocked"
          /\ UNCHANGED elapsed
    /\ UNCHANGED <<r, built, mode, attempts, err, results, ret, exit, waits, delay,
                   timerFired, ctxDone, ctxAtReturn, waitVars, asideVars>>

\* the select looks at its channels: it takes one of the ready cases, or
\* blocks when none is ready
Select ==
    /\ pc = "select"
    /\ \/ /\ timerFired
          /\ pc' = "call"
          /\ elapsed' = elapsed + 1
          /\ UNCHANGED <<ret, exit>>
       \/ /\ ctxDone
          /\ ret' = RunContextCancelled(err)
          /\ exit' = "cancelled"
          /\ pc' = "done"
          /\ UNCHANGED elapsed
       \/ /\ ~timerFired
          /\ ~ctxDone
          /\ pc' = "blocked"
          /\ UNCHANGED <<ret, exit, elapsed>>
    /\ UNCHANGED <<r, built, mode, attempts, err, results, waits, delay,
                   timerFired, ctxDone, ctxAtReturn, waitVars, asideVars>>

\* the timer elapses while the select is blocked: the loop goes round
\* a timer whose firing does not wake the blocked select
TimerWakesLost ==
    /\ pc = "blocked"
    /\ timerFired' = TRUE
    /\ UNCHANGED <<r, built, mode, pc, attempts, err, results, ret, exit, waits, delay,
                   ctxDone, trackVars, asideVars>>

TimerWakes ==
    /\ pc = "blocked"
    /\ timerFired' = TRUE
    /\ pc' = "call"
    /\ elapsed' = elapsed + 1
    /\ UNCHANGED <<r, built, mode, attempts, err, results, ret, exit, waits, delay,
                   ctxDone, ctxAtReturn, waitVars, asideVars>>

\* the context is cancelled (or its deadline passes).  A select blocked on
\* ctx.Done() is woken with that case and returns err.
Cancel ==
    /\ pc \in {"ready", "call", "select", "blocked"}
    /\ mode # "Run"
    /\ ~ctxDone
    /\ ctxDone' = TRUE
    /\ IF pc = "blocked"
       THEN /\ ret' = RunContextCancelled(err)
            /\ exit' = "cancelled"
            /\ pc' = "done"
       ELSE UNCHANGED <<ret, exit, pc>>
    /\ UNCHANGED <<r, built, mode, attempts, err, results, waits, delay,
                   timerFired, trackVars, asideVars>>

----------------------------------------------------------------------------
Next ==
    \/ \E mt \in -1 .. MaxTriesArg, id \in -1 .. MaxDelayArg, md \in -1 .. MaxDelayArg :
         CallNewRetrier(mt, id, md)
    \/ UseZeroValue
    \/ CallRun
    \/ \E v \in OpResults : RunLoop(v)
    \/ SleepReturns
    \/ CallRunContext
    \/ \E v \in OpResults : RunContextLoop(v)
    \/ TimerFires
    \/ Select
    \/ TimerWakes
    \/ Cancel

Spec == Init /\ [][Next]_vars

\* every invocation of funcToRetry returns, every time.Sleep returns, every
\* timer fires and a select that can proceed does; nothing is assumed of the
\* caller or of the context
Fairness ==
    /\ WF_vars(\E v \in OpResults : RunLoop(v))
    /\ WF_vars(SleepReturns)
    /\ WF_vars(\E v \in OpResults : RunContextLoop(v))
    /\ WF_vars(TimerFires)
    /\ WF_vars(Select)
    /\ WF_vars(TimerWakes)

SpecFair == Spec /\ Fairness

----------------------------------------------------------------------------
(* Runs whose waits are summed up, on policies built by NewRetrier from
   maxTries in 0 .. MaxTriesArg and delays in 1 .. MaxDelayArg *)

InitWaits ==
    /\ r = ZeroRetrier
    /\ built = [how |-> "none", maxTries |-> 0, initialDelay |-> 0, maxDelay |-> 0]
    /\ mode = "none"
    /\ pc = "new"
    /\ attempts = 0
    /\ err = Nil
    /\ results = <<>>
    /\ ret = Nil
    /\ exit = "none"
    /\ waits = 0
    /\ delay = 0
    /\ timerFired = FALSE
    /\ ctxDone = FALSE
    /\ ctxAtReturn = FALSE
    /\ elapsed = 0
    /\ measure = TRUE
    /\ waited = 0
    /\ bk = NoBackoff
    /\ NoRuns
    /\ NoDo

NextWaits ==
    \/ \E mt \in 0 .. MaxTriesArg, id \in 1 .. MaxDelayArg, md \in 1 .. MaxDelayArg :
         CallNewRetrier(mt, id, md)
    \/ CallRun
    \/ \E v \in OpResults : RunLoop(v)
    \/ SleepReturns
    \/ CallRunContext
    \/ \E v \in OpResults : RunContextLoop(v)
    \/ TimerFires
    \/ Select
    \/ TimerWakes
    \/ Cancel

SpecWaits == InitWaits /\ [][NextWaits]_vars

----------------------------------------------------------------------------
(* getnextBackoff on its own: the arguments are drawn from the whole word *)

InitBackoff ==
    /\ r = ZeroRetrier
    /\ built = [how |-> "none", maxTries |-> 0, initialDelay |-> 0, maxDelay |-> 0]
    /\ mode = "none"
    /\ pc = "new"
    /\ attempts = 0
    /\ err = Nil
    /\ results = <<>>
    /\ ret = Nil
    /\ exit = "none"
    /\ waits = 0
    /\ delay = 0
    /\ timerFired = FALSE
    /\ ctxDone = FALSE
    /\ ctxAtReturn = FALSE
    /\ elapsed = 0
    /\ measure = FALSE
    /\ waited = 0
    /\ \E a \in 0 .. MaxAttemptsArg, id \in 0 .. MaxInt, md \in 0 .. MaxInt :
         bk = [applied |-> FALSE, attempts |-> a, initialDelay |-> id, maxDelay |-> md,
               bound |-> 0, panic |-> FALSE, d |-> 0]
    /\ NoRuns
    /\ NoDo

\* getnextBackoff(bk.attempts, bk.initialDelay, bk.maxDelay) is called
ApplyBackoff ==
    /\ ~bk.applied
    /\ \E o \in getnextBackoff(bk.attempts, bk.initialDelay, bk.maxDelay) :
         bk' = [bk EXCEPT !.applied = TRUE,
                          !.bound = BackoffBound(bk.attempts, bk.initialDelay, bk.maxDelay),
                          !.panic = o.panic,
                          !.d = o.d]
    /\ UNCHANGED <<runVars, concVars, doVars>>

NextBackoff == ApplyBackoff

SpecBackoff == InitBackoff /\ [][NextBackoff]_vars

----------------------------------------------------------------------------
(* Concurrent runs: the runs of RunIds execute Run or RunContext on the one
   Retrier r, each on its own goroutine, with its own funcToRetry and its own
   context.  They share r, which no run writes, and the jitter source
   randSource behind randMux. *)

\* the single run is not used
SingleRunAtRest ==
    /\ mode = "none"
    /\ pc = "new"
    /\ attempts = 0
    /\ err = Nil
    /\ results = <<>>
    /\ ret = Nil
    /\ exit = "none"
    /\ waits = 0
    /\ delay = 0
    /\ timerFired = FALSE
    /\ ctxDone = FALSE
    /\ ctxAtReturn = FALSE
    /\ elapsed = 0
    /\ measure = FALSE
    /\ waited = 0
    /\ bk = NoBackoff

InitConc ==
    /\ SingleRunAtRest
    /\ NoRuns
    /\ NoDo
    /\ \/ \E mt \in 1 .. MaxConcTries, id \in 1 .. MaxDelayArg, md \in 1 .. MaxDelayArg :
            /\ r = NewRetrier(mt, id, md)
            /\ built = [how |-> "NewRetrier", maxTries |-> mt, initialDelay |-> id,
                        maxDelay |-> md]
       \/ /\ r = ZeroRetrier
          /\ built = [how |-> "zero", maxTries |-> 0, initialDelay |-> 0, maxDelay |-> 0]

\* a run whose attempts counter is one variable shared by all the runs
AttemptSlotShared(i) == 1

\* `attempts := 0` declares a local of the call: each run has its own counter
AttemptSlot(i) == i

\* run i calls r.Run (m = "Run") or r.RunContext (m = "RunContext"): attempts := 0
ConcCall(i, m) ==
    /\ runs[i].pc = "ready"
    /\ m = "Run" => ~runs[i].ctxDone
    /\ runs' = [runs EXCEPT ![i].mode = m, ![i].pc = "call"]
    /\ att' = [att EXCEPT ![AttemptSlot(i)] = 0]
    /\ UNCHANGED <<runVars, bk, doVars, randMux>>

\* one iteration of run i's loop, its funcToRetry returning v, up to the
\* return or to the call of randInt63n in getnextBackoff
ConcLoop(i, v) ==
    LET me == runs[i]
        a == att[AttemptSlot(i)] + 1
        succeeded == IF me.mode = "Run" THEN RunSucceeded(v) ELSE RunContextSucceeded(v)
        last == IF me.mode = "Run" THEN RunLastAttempt(a) ELSE RunContextLastAttempt(a)
        unwrapped == IF me.mode = "Run" THEN RunUnwrap(v) ELSE RunContextUnwrap(v)
        called == [me EXCEPT !.results = Append(me.results, v), !.err = v]
    IN  /\ me.pc = "call"
        /\ IF succeeded
           THEN /\ runs' = [runs EXCEPT ![i] = [called EXCEPT !.ret = Nil, !.pc = "done"]]
                /\ UNCHANGED att
           ELSE /\ att' = [att EXCEPT ![AttemptSlot(i)] = a]
                /\ IF last
                   THEN runs' = [runs EXCEPT ![i] = [called EXCEPT !.ret = v, !.pc = "done"]]
                   ELSE IF IsTerminal(v)
                   THEN runs' = [runs EXCEPT ![i] =
                                    [called EXCEPT !.ret = unwrapped, !.pc = "done"]]
                   ELSE runs' = [runs EXCEPT ![i] = [called EXCEPT !.pc = "lock"]]
        /\ UNCHANGED <<runVars, bk, doVars, randMux>>

\* randInt63n: randMux.Lock()
ConcLock(i) ==
    /\ runs[i].pc = "lock"
    /\ randMux = 0
    /\ randMux' = i
    /\ runs' = [runs EXCEPT ![i].pc = "draw"]
    /\ UNCHANGED <<runVars, bk, doVars, att>>

\* a draw whose panic leaves randMux locked
ConcDrawPanicKeepsLock(i) ==
    /\ runs[i].pc = "draw"
    /\ randMux = i
    /\ \E o \in getnextBackoff(att[AttemptSlot(i)], r.initialDelay, r.maxDelay) :
         IF o.panic
         THEN /\ runs' = [runs EXCEPT ![i].pc = "panic"]
              /\ randMux' = i
         ELSE /\ runs' = [runs EXCEPT ![i].delay = o.d,
                                      ![i].timerFired = FALSE,
                                      ![i].waits = @ + 1,
                                      ![i].waitAt = att[AttemptSlot(i)],
                                      ![i].pc = IF runs[i].mode = "Run" THEN "sleep"
                                                ELSE "select"]
              /\ randMux' = 0
    /\ UNCHANGED <<runVars, bk, doVars, att>>

\* randInt63n: randSource.Int63n(i) and the deferred randMux.Unlock(), which
\* also runs when Int63n panics; then the wait starts
ConcDraw(i) ==
    /\ runs[i].pc = "draw"
    /\ randMux = i
    /\ randMux' = 0
    /\ \E o \in getnextBackoff(att[AttemptSlot(i)], r.initialDelay, r.maxDelay) :
         IF o.panic
         THEN runs' = [runs EXCEPT ![i].pc = "panic"]
         ELSE runs' = [runs EXCEPT ![i].delay = o.d,
                                   ![i].timerFired = FALSE,
                                   ![i].waits = @ + 1,
                                   ![i].waitAt = att[AttemptSlot(i)],
                                   ![i].pc = IF runs[i].mode = "Run" THEN "sleep"
                                             ELSE "select"]
    /\ UNCHANGED <<runVars, bk, doVars, att>>

\* run i's time.Sleep returns
ConcSleepReturns(i) ==
    /\ runs[i].pc = "sleep"
    /\ runs' = [runs EXCEPT ![i].pc = "call"]
    /\ UNCHANGED <<runVars, bk, doVars, att, randMux>>

\* run i's timer elapses before its select has looked at its channels
ConcTimerFires(i) ==
    /\ runs[i].pc = "select"
    /\ ~runs[i].timerFired
    /\ runs' = [runs EXCEPT ![i].timerFired = TRUE]
    /\ UNCHANGED <<runVars, bk, doVars, att, randMux>>

\* run i's select looks at its channels
ConcSelect(i) ==
    /\ runs[i].pc = "select"
    /\ \/ /\ runs[i].timerFired
          /\ runs' = [runs EXCEPT ![i].pc = "call"]
       \/ /\ runs[i].ctxDone
          /\ runs' = [runs EXCEPT ![i].ret = RunContextCancelled(runs[i].err),
                                  ![i].pc = "done"]
       \/ /\ ~runs[i].timerFired
          /\ ~runs[i].ctxDone
          /\ runs' = [runs EXCEPT ![i].pc = "blocked"]
    /\ UNCHANGED <<runVars, bk, doVars, att, randMux>>

\* a timer whose firing ends the run with the last failure
ConcTimerWakesReturns(i) ==
    /\ runs[i].pc = "blocked"
    /\ runs' = [runs EXCEPT ![i].timerFired = TRUE,
                            ![i].ret = runs[i].err,
                            ![i].pc = "done"]
    /\ UNCHANGED <<runVars, bk, doVars, att, randMux>>

\* run i's timer elapses while its select is blocked
ConcTimerWakes(i) ==
    /\ runs[i].pc = "blocked"
    /\ runs' = [runs EXCEPT ![i].timerFired = TRUE, ![i].pc = "call"]
    /\ UNCHANGED <<runVars, bk, doVars, att, randMux>>

\* run i's context is cancelled
ConcCancel(i) ==
    /\ runs[i].pc \in {"ready", "call", "lock", "draw", "select", "blocked"}
    /\ runs[i].mode # "Run"
    /\ ~runs[i].ctxDone
    /\ IF runs[i].pc = "blocked"
       THEN runs' = [runs EXCEPT ![i].ctxDone = TRUE,
                                 ![i].ret = RunContextCancelled(runs[i].err),
                                 ![i].pc = "done"]
       ELSE runs' = [runs EXCEPT ![i].ctxDone = TRUE]
    /\ UNCHANGED <<runVars, bk, doVars, att, randMux>>

NextConc ==
    \E i \in RunIds :
        \/ \E m \in {"Run", "RunContext"} : ConcCall(i, m)
        \/ \E v \in OpResults : ConcLoop(i, v)
        \/ ConcLock(i)
        \/ ConcDraw(i)
        \/ ConcSleepReturns(i)
        \/ ConcTimerFires(i)
        \/ ConcSelect(i)
        \/ ConcTimerWakes(i)
        \/ ConcCancel(i)

SpecConc == InitConc /\ [][NextConc]_vars

----------------------------------------------------------------------------
(* Do and DoWithContext with a BackoffStrategy: the strategy is a closure over
   its own attempts counter, and the runs of RunIds call the one strategy. *)

\* ConstantBackoff(maxAttempts, delay): attempts := 0 and the closure
ConstantBackoff(maxAttempts, d) ==
    [kind |-> "constant", maxAttempts |-> maxAttempts, delay |-> d, maxDelay |-> 0,
     attempts |-> 0]

\* ExponentialBackoff(maxAttempts, initialDelay, maxDelay): panics unless
\* initialDelay is positive; attempts := 0 and the closure
ExponentialBackoff(maxAttempts, initialDelay, maxDelay) ==
    IF initialDelay <= 0
    THEN [NoStrategy EXCEPT !.kind = "panic"]
    ELSE [kind |-> "exponential", maxAttempts |-> maxAttempts, delay |-> initialDelay,
          maxDelay |-> maxDelay, attempts |-> 0]

\* what a call of the closure s returns once attempts++ has made attempts a:
\* the duration and whether to continue, or a panic of rand.Int63n
backoff(s, a) ==
    IF s.kind = "constant"
    THEN {[panic |-> FALSE, d |-> s.delay, toContinue |-> a < s.maxAttempts - 1]}
    ELSE LET i == Wrap(Shl1(a - 1) * s.delay)
         IN  IF Int63nPanics(i)
             THEN {[panic |-> TRUE, d |-> 0, toContinue |-> FALSE]}
             ELSE {[panic |-> FALSE, d |-> min(s.maxDelay, j),
                    toContinue |-> a < s.maxAttempts - 1] : j \in Int63nValues(i)}

\* case FinalError: return v.e
DoUnwrap(v) == v.e

InitDo ==
    /\ SingleRunAtRest
    /\ r = ZeroRetrier
    /\ built = [how |-> "zero", maxTries |-> 0, initialDelay |-> 0, maxDelay |-> 0]
    /\ NoRuns
    /\ NoDo

CallConstantBackoff(maxAttempts, d) ==
    /\ strategy.kind = "none"
    /\ strategy' = ConstantBackoff(maxAttempts, d)
    /\ UNCHANGED <<runVars, bk, concVars, dos>>

CallExponentialBackoff(maxAttempts, initialDelay, maxDelay) ==
    /\ strategy.kind = "none"
    /\ strategy' = ExponentialBackoff(maxAttempts, initialDelay, maxDelay)
    /\ UNCHANGED <<runVars, bk, concVars, dos>>

\* run i calls Do (fn = "Do") or DoWithContext with the strategy; the runs are
\* numbered in the order of their calls
CallDo(i, fn) ==
    /\ strategy.kind \in {"constant", "exponential"}
    /\ dos[i].pc = "ready"
    /\ \A k \in RunIds : k < i => dos[k].fn # "none"
    /\ fn = "Do" => ~dos[i].ctxDone
    /\ dos' = [dos EXCEPT ![i].fn = fn, ![i].pc = "call"]
    /\ UNCHANGED <<runVars, bk, concVars, strategy>>

\* run i's loop from the invocation, which returns v, to a return or to the
\* call of the strategy
DoInvoke(i, v) ==
    LET called == [dos[i] EXCEPT !.n = @ + 1, !.err = v]
    IN  /\ dos[i].pc = "call"
        /\ dos' = [dos EXCEPT ![i] =
                      IF v = Nil THEN [called EXCEPT !.ret = Nil, !.pc = "done"]
                      ELSE IF IsTerminal(v)
                      THEN [called EXCEPT !.ret = DoUnwrap(v), !.pc = "done"]
                      ELSE [called EXCEPT !.pc = "backoff"]]
        /\ UNCHANGED <<runVars, bk, concVars, strategy>>

\* the closure's attempts++ is not atomic: run i reads attempts
DoBackoffLoad(i) ==
    /\ dos[i].pc = "backoff"
    /\ dos' = [dos EXCEPT ![i].loaded = strategy.attempts, ![i].pc = "store"]
    /\ UNCHANGED <<runVars, bk, concVars, strategy>>

\* run i writes attempts, the closure returns, and the loop goes on to its
\* return or to its wait
DoBackoffStore(i) ==
    LET a == dos[i].loaded + 1
    IN  /\ dos[i].pc = "store"
        /\ strategy' = [strategy EXCEPT !.attempts = a]
        /\ \E o \in backoff(strategy, a) :
             dos' = [dos EXCEPT ![i] =
                        IF o.panic THEN [@ EXCEPT !.loaded = 0, !.pc = "panic"]
                        ELSE IF ~o.toContinue
                        THEN [@ EXCEPT !.loaded = 0, !.ret = dos[i].err, !.pc = "done"]
                        ELSE [@ EXCEPT !.loaded = 0, !.delay = o.d, !.timerFired = FALSE,
                                       !.pc = IF dos[i].fn = "Do" THEN "sleep"
                                              ELSE "select"]]
        /\ UNCHANGED <<runVars, bk, concVars>>

\* Do: time.Sleep(nextDuration) returns
DoSleepReturns(i) ==
    /\ dos[i].pc = "sleep"
    /\ dos' = [dos EXCEPT ![i].delay = 0, ![i].pc = "call"]
    /\ UNCHANGED <<runVars, bk, concVars, strategy>>

\* DoWithContext: the timer elapses before the select has looked
DoTimerFires(i) ==
    /\ dos[i].pc = "select"
    /\ ~dos[i].timerFired
    /\ dos' = [dos EXCEPT ![i].timerFired = TRUE]
    /\ UNCHANGED <<runVars, bk, concVars, strategy>>

\* DoWithContext: the select looks at its channels
DoSelect(i) ==
    /\ dos[i].pc = "select"
    /\ \/ /\ dos[i].timerFired
          /\ dos' = [dos EXCEPT ![i].delay = 0, ![i].timerFired = FALSE, ![i].pc = "call"]
       \/ /\ dos[i].ctxDone
          /\ dos' = [dos EXCEPT ![i].delay = 0, ![i].timerFired = FALSE,
                                ![i].ret = dos[i].err, ![i].pc = "done"]
       \/ /\ ~dos[i].timerFired
          /\ ~dos[i].ctxDone
          /\ dos' = [dos EXCEPT ![i].pc = "blocked"]
    /\ UNCHANGED <<runVars, bk, concVars, strategy>>

\* DoWithContext: the timer elapses while the select is blocked
DoTimerWakes(i) ==
    /\ dos[i].pc = "blocked"
    /\ dos' = [dos EXCEPT ![i].delay = 0, ![i].pc = "call"]
    /\ UNCHANGED <<runVars, bk, concVars, strategy>>

\* DoWithContext: run i's context is cancelled
DoCancel(i) ==
    /\ dos[i].pc \in {"ready", "call", "backoff", "store", "select", "blocked"}
    /\ dos[i].fn # "Do"
    /\ ~dos[i].ctxDone
    /\ dos' = [dos EXCEPT ![i] =
                  IF dos[i].pc = "blocked"
                  THEN [@ EXCEPT !.ctxDone = TRUE, !.delay = 0, !.ret = dos[i].err,
                                 !.pc = "done"]
                  ELSE [@ EXCEPT !.ctxDone = TRUE]]
    /\ UNCHANGED <<runVars, bk, concVars, strategy>>

NextDo ==
    \/ \E maxAttempts \in 0 .. MaxDoAttempts, d \in 1 .. MaxDelayArg :
           CallConstantBackoff(maxAttempts, d)
    \/ \E maxAttempts \in 0 .. MaxDoAttempts,
          initialDelay \in {0, DefaultInitialDelay, DefaultMaxDelay},
          maxDelay \in 0 .. MaxDelayArg :
           CallExponentialBackoff(maxAttempts, initialDelay, maxDelay)
    \/ \E i \in RunIds :
           \/ \E fn \in {"Do", "DoWithContext"} : CallDo(i, fn)
           \/ \E v \in OpResults : DoInvoke(i, v)
           \/ DoBackoffLoad(i)
           \/ DoBackoffStore(i)
           \/ DoSleepReturns(i)
           \/ DoTimerFires(i)
           \/ DoSelect(i)
           \/ DoTimerWakes(i)
           \/ DoCancel(i)

SpecDo == InitDo /\ [][NextDo]_vars

----------------------------------------------------------------------------
(* Properties *)

\* the number of invocations of funcToRetry so far
Invocations == Len(results)

\* the result of the latest invocation
LastResult == results[Len(results)]

\* the first n invocations all returned a plain, non-terminal error
FailedPlainly(n) == \A i \in 1 .. n : results[i] \in PlainErrors

ByNewRetrier == built.how = "NewRetrier"

Running == mode \in {"Run", "RunContext"}

Waiting == pc \in {"sleep", "select", "blocked"}

\* C1: on a policy built by NewRetrier with maxTries = N, while the context
\* is not cancelled, a run whose invocations all fail non-terminally never
\* panics, never goes beyond N invocations, has ended once the Nth invocation
\* has failed, ends only then, and returns what the Nth invocation returned.
C1_AlwaysFailingRunsMaxTries ==
    (ByNewRetrier /\ Running /\ ~ctxDone /\ FailedPlainly(Invocations)) =>
        /\ r.maxTries >= 1
        /\ pc # "panic"
        /\ Invocations <= r.maxTries
        /\ (Invocations = r.maxTries => pc = "done")
        /\ (pc = "done" => /\ Invocations = r.maxTries
                           /\ ret = results[r.maxTries])

C1_Witness ==
    /\ ByNewRetrier
    /\ mode = "RunContext"
    /\ ~ctxDone
    /\ pc = "done"
    /\ r.maxTries = 3
    /\ results = <<Err("e1"), Err("e1"), Err("e2")>>
    /\ ret = Err("e2")

\* C2: when invocations 1..K-1 failed non-terminally and invocation K <= maxTries
\* returned nil, with the context not cancelled, the run has ended after
\* exactly K invocations, has returned nil, and is in no backoff wait: it
\* made the K-1 waits between the invocations and none after the Kth.
C2_SuccessOnKthInvocation ==
    (/\ Running
     /\ ~ctxDone
     /\ Invocations >= 1
     /\ Invocations <= r.maxTries
     /\ LastResult = Nil
     /\ FailedPlainly(Invocations - 1)) =>
        /\ pc = "done"
        /\ ~Waiting
        /\ ret = Nil
        /\ exit = "success"
        /\ waits = Invocations - 1

C2_Witness ==
    /\ mode = "RunContext"
    /\ ~ctxDone
    /\ pc = "done"
    /\ r.maxTries = 3
    /\ results = <<Err("e1"), Err("e2"), Nil>>
    /\ ret = Nil
    /\ waits = 2

\* C3: when the first invocation returned Stop(e), the run has ended after
\* that one invocation, without a wait, and has returned e itself, for every
\* maxTries >= 1.
C3_TerminalOnFirstInvocation ==
    (/\ Running
     /\ r.maxTries >= 1
     /\ Invocations >= 1
     /\ IsTerminal(results[1])) =>
        /\ Invocations = 1
        /\ pc = "done"
        /\ waits = 0
        /\ ret = results[1].e

\* C4: when the jth invocation, j <= maxTries, is the first to return a
\* terminal failure Stop(e), the run has ended after exactly j invocations,
\* is in no wait, and has returned e unwrapped, j = maxTries included.
C4_TerminalOnJthInvocation ==
    (/\ Running
     /\ Invocations >= 1
     /\ \E j \in 1 .. Invocations :
          /\ j <= r.maxTries
          /\ IsTerminal(results[j])
          /\ \A i \in 1 .. (j - 1) : ~IsTerminal(results[i])) =>
        /\ IsTerminal(LastResult)
        /\ pc = "done"
        /\ ~Waiting
        /\ ret = LastResult.e

\* C5: in RunContext, a cancellation that arrives while the select is blocked
\* (the timer has not fired) ends the run in that step; and every step that
\* ends a wait with the context done and the timer not fired returns the
\* result of the latest invocation, a plain failure, with no new invocation,
\* after at least 1 and fewer than maxTries invocations.  A run that has
\* ended makes no further invocation.
C5_CancelDuringWaitReturnsLastFailure ==
    [][/\ (pc = "blocked" /\ ~ctxDone /\ ctxDone') => pc' = "done"
       /\ (pc \in {"select", "blocked"} /\ pc' \notin {"select", "blocked"}
             /\ ctxDone' /\ ~timerFired') =>
            /\ pc' = "done"
            /\ results' = results
            /\ ret' = LastResult
            /\ ret' \in PlainErrors
            /\ Invocations >= 1
            /\ Invocations < r.maxTries
       /\ (pc = "done" => (pc' = "done" /\ results' = results /\ ret' = ret))]_vars

C5_Witness ==
    /\ mode = "RunContext"
    /\ pc = "done"
    /\ exit = "cancelled"
    /\ ctxDone
    /\ ~timerFired
    /\ r.maxTries = 3
    /\ results = <<Err("e1"), Err("e2")>>
    /\ ret = Err("e2")

\* C6: in every run on a policy built by NewRetrier the attempt counter and
\* the number of invocations never exceed maxTries.
C6_AtMostMaxTriesInvocations ==
    (ByNewRetrier /\ Running) =>
        /\ attempts <= r.maxTries
        /\ Invocations <= r.maxTries

C6_Witness ==
    /\ ByNewRetrier
    /\ mode = "RunContext"
    /\ built.maxTries = 0
    /\ attempts = DefaultMaxTries
    /\ Invocations = DefaultMaxTries
    /\ ctxDone
    /\ IsTerminal(LastResult)

\* C7: NewRetrier replaces each argument <= 0 by its default (5, 200 ms,
\* 1000 ms), whatever the other two arguments are, and keeps each positive
\* argument; every policy it returns has maxTries >= 1 and positive delays.
C7_NewRetrierDefaults ==
    ByNewRetrier =>
        /\ (built.maxTries <= 0 => r.maxTries = 5)
        /\ (built.maxTries > 0 => r.maxTries = built.maxTries)
        /\ (built.initialDelay <= 0 => r.initialDelay = 2)
        /\ (built.initialDelay > 0 => r.initialDelay = built.initialDelay)
        /\ (built.maxDelay <= 0 => r.maxDelay = 10)
        /\ (built.maxDelay > 0 => r.maxDelay = built.maxDelay)
        /\ r.maxTries >= 1
        /\ r.initialDelay > 0
        /\ r.maxDelay > 0

C7_Witness ==
    /\ ByNewRetrier
    /\ built.maxTries = 0
    /\ built.initialDelay = 1
    /\ built.maxDelay = -1
    /\ r = [maxTries |-> 5, initialDelay |-> 1, maxDelay |-> 10]

\* C8: for every attempt number >= 0 and positive initialDelay and maxDelay,
\* getnextBackoff draws with a bound > 0 (it does not panic) and returns a
\* duration d with 0 <= d <= maxDelay, also when initialDelay * 2^attempts
\* overflows the word or the shift count reaches the word's width.
C8_BackoffWithinBounds ==
    (bk.applied /\ bk.attempts >= 0 /\ bk.initialDelay > 0 /\ bk.maxDelay > 0) =>
        /\ ~bk.panic
        /\ bk.bound > 0
        /\ bk.d >= 0
        /\ bk.d <= bk.maxDelay

\* the product overflows to a negative value and the fallback is taken
C8_Witness ==
    /\ bk.applied
    /\ bk.attempts = WordBits - 1
    /\ bk.initialDelay = 3
    /\ bk.maxDelay = 5
    /\ bk.initialDelay * 2^bk.attempts > MaxInt
    /\ ~bk.panic
    /\ bk.bound = 5
    /\ bk.d = 4

\* C9: a run on the zero value Retrier{} does not panic.
C9_ZeroValueDoesNotPanic ==
    (built.how = "zero" /\ Running) => pc # "panic"

\* C10: the value a run returns is exactly one of: nil after an invocation
\* that returned nil; the raw result of the latest invocation once attempts
\* has reached maxTries; the content of the terminal wrapper the latest
\* invocation returned; the raw result of the latest invocation after a
\* cancellation with attempts left.  A returned failure is the latest
\* invocation's result or the content of its wrapper.
C10_Success == LastResult = Nil /\ ret = Nil

C10_Exhausted == LastResult # Nil /\ attempts = r.maxTries /\ ret = LastResult

C10_Terminal == IsTerminal(LastResult) /\ ret = LastResult.e

C10_Cancelled ==
    /\ LastResult \in PlainErrors
    /\ attempts # r.maxTries
    /\ mode = "RunContext"
    /\ ctxDone
    /\ ret = LastResult

C10_ReturnValueTaxonomy ==
    pc = "done" =>
        /\ Invocations >= 1
        /\ Cardinality({c \in {"success", "exhausted", "terminal", "cancelled"} :
              \/ c = "success" /\ C10_Success
              \/ c = "exhausted" /\ C10_Exhausted
              \/ c = "terminal" /\ C10_Terminal
              \/ c = "cancelled" /\ C10_Cancelled}) = 1
        /\ (ret # Nil =>
              \/ ret = LastResult
              \/ IsTerminal(LastResult) /\ ret = LastResult.e)

C10_Witness ==
    /\ mode = "Run"
    /\ pc = "done"
    /\ exit = "terminal"
    /\ r.maxTries = 3
    /\ results = <<Err("e1"), Stop(Err("e2"))>>
    /\ ret = Err("e2")

\* C14: in RunContext, when the context was already done at the moment the
\* latest invocation returned its non-terminal failure, the select does not
\* go round the loop: no further invocation follows, and the run returns
\* that failure.
C14_DoneContextStopsLoop ==
    [][(mode = "RunContext" /\ pc = "select" /\ ctxAtReturn) =>
          /\ pc' \in {"select", "done"}
          /\ results' = results
          /\ (pc' = "done" => ret' = LastResult)]_vars

\* C15: an invocation is made only from the head of the loop of a run that
\* has not returned; invocation n+1 follows n invocations of which the latest
\* returned a plain failure, n waits started and n waits run to their end.
\* A wait runs to its end only by its timer (or by Sleep returning), and a run
\* that returned on cancellation makes no invocation.
C15_InvocationsAlternateWithWaits ==
    [][/\ (results' # results) =>
            /\ pc = "call"
            /\ exit = "none"
            /\ Len(results') = Invocations + 1
            /\ waits = Invocations
            /\ elapsed = Invocations
            /\ (Invocations >= 1 => LastResult \in PlainErrors)
       /\ (elapsed' # elapsed) =>
            /\ elapsed' = elapsed + 1
            /\ Waiting
            /\ pc' = "call"
            /\ (mode = "RunContext" => timerFired')
       /\ (exit = "cancelled" => (results' = results /\ elapsed' = elapsed))]_vars

C15_Witness ==
    /\ mode = "RunContext"
    /\ pc = "call"
    /\ Invocations = 2
    /\ elapsed = 2
    /\ waits = 2
    /\ timerFired
    /\ ctxDone

\* the delay of the wait after the nth failed attempt cannot overflow the word
NoOverflow(n) == r.initialDelay * 2^n <= MaxInt

\* C17 as stated: the delay after the nth failed attempt is never below
\* min(maxDelay, initialDelay * 2^(n-1)).
C17_DelayAtLeastBase ==
    (Waiting /\ attempts >= 1 /\ NoOverflow(attempts)) =>
        delay >= min(r.maxDelay, r.initialDelay * 2^(attempts - 1))

\* the delays the wait after the nth failed attempt may have: min(maxDelay, j)
\* for j in [0, 2 * base), base = initialDelay * 2^(n-1)
C17_Delays(n) ==
    {min(r.maxDelay, j) : j \in 0 .. (2 * (r.initialDelay * 2^(n - 1)) - 1)}

\* one more iteration of the loop the run is in
C17_Loop(v) == IF mode = "Run" THEN RunLoop(v) ELSE RunContextLoop(v)

\* C17 (amended): when no overflow occurs, the delay after the nth failed
\* attempt is min(maxDelay, j) for a j in [0, 2 * base), base = initialDelay *
\* 2^(n-1): each wait has one of these delays, and each of these delays is
\* possible for the wait that follows the nth failure.
C17_DelayDrawnFromZeroToTwiceBase ==
    /\ (Waiting /\ attempts >= 1 /\ NoOverflow(attempts)) => delay \in C17_Delays(attempts)
    /\ (/\ Running
        /\ pc = "call"
        /\ ByNewRetrier
        /\ attempts + 1 < r.maxTries
        /\ NoOverflow(attempts + 1)) =>
           \A d \in C17_Delays(attempts + 1) :
              ENABLED (C17_Loop(Err("e1")) /\ delay' = d)

C17_Witness ==
    /\ mode = "Run"
    /\ pc = "sleep"
    /\ attempts = 2
    /\ r.initialDelay = 2
    /\ r.maxDelay = 10
    /\ NoOverflow(attempts)
    /\ delay = 0

\* C18: whenever initialDelay * 2^attempts exceeds the word, getnextBackoff
\* draws the jitter with maxDelay as the bound, whatever the wrapped product is.
C18_OverflowFallsBackToMaxDelay ==
    (/\ bk.applied
     /\ bk.initialDelay > 0
     /\ bk.maxDelay > 0
     /\ bk.initialDelay * 2^bk.attempts > MaxInt) =>
        bk.bound = bk.maxDelay

\* C16: a run that made K invocations and ended by success, exhaustion or a
\* terminal failure started exactly K-1 waits, all of which ran to their end:
\* none follows the final invocation.  No run starts more than maxTries-1
\* waits, every wait lasts at most maxDelay, and the waits of one run sum up
\* to at most (maxTries-1) * maxDelay.
C16_WaitsBetweenInvocationsOnly ==
    (ByNewRetrier /\ Running) =>
        /\ (pc = "done" /\ exit \in {"success", "exhausted", "terminal"}) =>
              /\ waits = Invocations - 1
              /\ elapsed = waits
        /\ (exit = "exhausted" => waits = r.maxTries - 1)
        /\ waits <= r.maxTries - 1
        /\ (Waiting => (delay >= 0 /\ delay <= r.maxDelay))
        /\ waited <= waits * r.maxDelay
        /\ waited <= (r.maxTries - 1) * r.maxDelay

\* five invocations, four waits, each of the full maxDelay
C16_Witness ==
    /\ mode = "Run"
    /\ pc = "done"
    /\ exit = "exhausted"
    /\ r.maxTries = DefaultMaxTries
    /\ Invocations = 5
    /\ waits = 4
    /\ r.initialDelay = 1
    /\ r.maxDelay = 1
    /\ waited = 4 * r.maxDelay

\* what a run executed alone does after its k-th invocation returned v
AloneStops(m, v, k) ==
    \/ IF m = "Run" THEN RunSucceeded(v) ELSE RunContextSucceeded(v)
    \/ IF m = "Run" THEN RunLastAttempt(k) ELSE RunContextLastAttempt(k)
    \/ IsTerminal(v)

AloneReturns(m, v, k) ==
    IF IF m = "Run" THEN RunSucceeded(v) ELSE RunContextSucceeded(v) THEN Nil
    ELSE IF IF m = "Run" THEN RunLastAttempt(k) ELSE RunContextLastAttempt(k) THEN v
    ELSE IF m = "Run" THEN RunUnwrap(v) ELSE RunContextUnwrap(v)

\* the number of failed invocations among run i's invocations
ConcFailures(i) ==
    Cardinality({k \in 1 .. Len(runs[i].results) : runs[i].results[k] # Nil})

\* C11: under every interleaving of the runs that share one Retrier, each run
\* has its own attempt counter, which starts at 0 and counts that run's failed
\* invocations only, and each run goes on and ends exactly as it would alone:
\* it went on after each of its earlier invocations as a run alone would, a run
\* that is not over has not reached an invocation at which a run alone stops,
\* and a run that is over returned what a run alone returns after the same
\* invocations (the last failure, if its own context ended the wait).
C11_ConcurrentRunsAreIndependent ==
    \A i \in RunIds :
        LET me == runs[i]
            n == Len(me.results)
        IN  /\ me.pc = "ready" => n = 0
            /\ me.pc # "ready" => att[AttemptSlot(i)] = ConcFailures(i)
            /\ \A k \in 1 .. n - 1 : ~AloneStops(me.mode, me.results[k], k)
            /\ me.pc \in {"lock", "draw", "sleep", "select", "blocked", "panic"} =>
                   /\ n > 0
                   /\ ~AloneStops(me.mode, me.results[n], n)
            /\ me.pc = "panic" =>
                   \E o \in getnextBackoff(n, r.initialDelay, r.maxDelay) : o.panic
            /\ me.pc = "done" =>
                   /\ n > 0
                   /\ IF AloneStops(me.mode, me.results[n], n)
                      THEN me.ret = AloneReturns(me.mode, me.results[n], n)
                      ELSE /\ me.mode = "RunContext"
                           /\ me.ctxDone
                           /\ me.ret = me.results[n]

\* one run is over after two invocations while the other, in the other entry
\* point, waits after its first
C11_Witness ==
    /\ runs[1].pc = "done"
    /\ runs[1].mode = "Run"
    /\ Len(runs[1].results) = 2
    /\ att[1] = 2
    /\ runs[2].mode = "RunContext"
    /\ runs[2].pc \in {"select", "blocked"}
    /\ ~runs[2].ctxDone
    /\ att[2] = 1

\* a is a prefix of b
IsPrefix(a, b) ==
    /\ Len(a) <= Len(b)
    /\ \A k \in 1 .. Len(a) : a[k] = b[k]

\* C12: two runs on equal policies, neither cancelled, whose operations return
\* the same results (as far as the shorter run asked) make the same number of
\* invocations and return the same value, whatever delays each of them drew.
C12_OutcomeIndependentOfJitter ==
    \A i \in RunIds : \A j \in RunIds :
        ( /\ runs[i].pc = "done"
          /\ runs[j].pc = "done"
          /\ ~runs[i].ctxDone
          /\ ~runs[j].ctxDone
          /\ IsPrefix(runs[i].results, runs[j].results) )
        => /\ Len(runs[i].results) = Len(runs[j].results)
           /\ runs[i].ret = runs[j].ret

\* both runs are over after the same two failures and drew different delays
C12_Witness ==
    /\ runs[1].pc = "done"
    /\ runs[2].pc = "done"
    /\ ~runs[1].ctxDone
    /\ ~runs[2].ctxDone
    /\ Len(runs[1].results) = 2
    /\ runs[1].results = runs[2].results
    /\ runs[1].ret = runs[2].ret
    /\ runs[1].delay # runs[2].delay

\* run i of Do or DoWithContext is over, its context never cancelled, and every
\* one of its invocations failed non-terminally
DoExhausted(i) ==
    /\ dos[i].pc = "done"
    /\ ~dos[i].ctxDone
    /\ dos[i].err \in PlainErrors

\* C13: a run of Do or DoWithContext, its context never cancelled, with a fresh
\* strategy ConstantBackoff(N, d) or ExponentialBackoff(N, i, m), N >= 1, that
\* no other run uses, whose operation always fails non-terminally, is over
\* after exactly N invocations and returns the failure of the Nth.
C13_DoInvokesMaxAttemptsTimes ==
    ( /\ strategy.maxAttempts >= 1
      /\ dos[2].fn = "none"
      /\ DoExhausted(1) )
    => /\ dos[1].n = strategy.maxAttempts
       /\ dos[1].ret = dos[1].err

\* C19: no call of a strategy made by ExponentialBackoff with initialDelay > 0
\* and maxDelay >= 0 panics, and the duration it returns for the wait is in
\* [0, maxDelay]; stated for the calls made by one run of Do or DoWithContext
\* that has the strategy to itself.
C19_ExponentialStrategyNeverPanics ==
    ( /\ strategy.kind = "exponential"
      /\ strategy.delay > 0
      /\ strategy.maxDelay >= 0
      /\ dos[2].fn = "none" )
    => /\ dos[1].pc # "panic"
       /\ dos[1].delay \in 0 .. strategy.maxDelay

\* C20: two runs that use the one strategy value, the second after the first
\* or along with it, have the same attempt budget: when both are over, neither
\* cancelled and each with all its invocations failed non-terminally, they
\* made the same number of invocations.
C20_SecondRunHasSameBudget ==
    (DoExhausted(1) /\ DoExhausted(2)) => dos[1].n = dos[2].n

\* C21: draws from the jitter source exclude each other and the lock never
\* stays taken: the holder of randMux is the one run inside Int63n, no other
\* run is inside it, its draw can always be made, and every draw, one that
\* panics included, leaves randMux unlocked; a run waiting for the lock can
\* take it as soon as it is unlocked.
C21_DrawsAreMutuallyExclusive ==
    /\ randMux \in RunIds \cup {0}
    /\ \A i \in RunIds :
          /\ runs[i].pc = "draw" <=> randMux = i
          /\ randMux = i => ENABLED (ConcDraw(i) /\ randMux' = 0)
          /\ randMux = i => ~ENABLED (ConcDraw(i) /\ randMux' # 0)
          /\ (runs[i].pc = "lock" /\ randMux = 0) => ENABLED ConcLock(i)
    /\ Cardinality({i \in RunIds : runs[i].pc = "draw"}) <= 1

\* one run's draw has panicked, and the other run has taken the lock since
C21_Witness ==
    /\ runs[1].pc = "panic"
    /\ runs[2].pc = "draw"
    /\ randMux = 2

\* C22: a run returns nil only if its latest invocation returned nil; no
\* non-nil result of the operation, a wrapper made by Stop around any value
\* included, makes the run return nil.
C22_NoFailureSwallowed ==
    (Running /\ pc = "done" /\ ret = Nil) => LastResult = Nil

\* C23: on a policy built by NewRetrier, if every invocation returns and every
\* timer fires, a run that has started eventually returns, by success,
\* exhaustion, terminal failure or cancellation, whatever the operation
\* returns and whenever the context is cancelled.
C23_RunsTerminate ==
    (ByNewRetrier /\ Running)
        ~> (pc = "done" /\ exit \in {"success", "exhausted", "terminal", "cancelled"})

\* a RunContext on the default policy has returned by exhaustion after its
\* fifth invocation, every wait having run to its end
C23_Witness ==
    /\ ByNewRetrier
    /\ mode = "RunContext"
    /\ pc = "done"
    /\ exit = "exhausted"
    /\ Invocations = DefaultMaxTries
    /\ elapsed = DefaultMaxTries - 1

\* C24: on one policy and for the same results of the operation, a RunContext
\* whose context is never cancelled does what a Run does: when the one has
\* returned the other has too, after as many invocations and as many waits and
\* with the same value, where the draw of the one panics the other does not
\* get past its draw, and while both wait after equally many invocations they
\* have begun equally many waits, the latest computed from the same attempts.
C24_RunContextUncancelledIsRun ==
    \A i \in RunIds : \A j \in RunIds :
        ( /\ runs[i].mode = "Run"
          /\ runs[j].mode = "RunContext"
          /\ ~runs[j].ctxDone )
        => /\ ( /\ runs[i].pc = "done"
                /\ runs[j].pc = "done"
                /\ \/ IsPrefix(runs[i].results, runs[j].results)
                   \/ IsPrefix(runs[j].results, runs[i].results) )
              => /\ runs[i].results = runs[j].results
                 /\ runs[i].waits = runs[j].waits
                 /\ runs[i].ret = runs[j].ret
           /\ ( /\ runs[i].results = runs[j].results
                /\ runs[i].results # <<>>
                /\ runs[i].pc # "call"
                /\ runs[j].pc # "call" )
              => /\ runs[i].pc = "done" <=> runs[j].pc = "done"
                 /\ runs[i].pc = "panic" => runs[j].pc \in {"lock", "draw", "panic"}
                 /\ runs[j].pc = "panic" => runs[i].pc \in {"lock", "draw", "panic"}
           /\ ( /\ runs[i].results = runs[j].results
                /\ runs[i].pc = "sleep"
                /\ runs[j].pc \in {"select", "blocked"} )
              => /\ runs[i].waits = runs[j].waits
                 /\ runs[i].waitAt = runs[j].waitAt
                 /\ runs[i].waitAt = Len(runs[i].results)

\* a Run and an uncancelled RunContext have both returned the second failure
\* after one wait each, having drawn different delays
C24_Witness ==
    /\ runs[1].mode = "Run"
    /\ runs[2].mode = "RunContext"
    /\ ~runs[2].ctxDone
    /\ runs[1].pc = "done"
    /\ runs[2].pc = "done"
    /\ runs[1].results = runs[2].results
    /\ Len(runs[1].results) = 2
    /\ runs[1].waits = 1
    /\ runs[2].waits = 1
    /\ runs[1].waitAt = 1
    /\ runs[2].waitAt = 1
    /\ runs[1].delay # runs[2].delay
    /\ runs[1].ret = runs[2].ret

\* C25: a run that is over, by a return or by a panic, has invoked the
\* operation at least once, whatever the policy; the first invocation of a run
\* that has been called can always be made, also with the context done, and a
\* return by cancellation comes after an invocation and in a wait.
C25_AtLeastOneInvocation ==
    Running =>
        /\ pc \in {"done", "panic"} => Invocations >= 1
        /\ exit = "cancelled" => (Invocations >= 1 /\ waits >= 1)
        /\ (pc = "call" /\ Invocations = 0) =>
               IF mode = "Run" THEN ENABLED (\E v \in OpResults : RunLoop(v))
               ELSE ENABLED (\E v \in OpResults : RunContextLoop(v))

\* a RunContext whose context was done when its first invocation returned
\* made that invocation and then returned its failure from the wait
C25_Witness ==
    /\ mode = "RunContext"
    /\ pc = "done"
    /\ exit = "cancelled"
    /\ ctxAtReturn
    /\ Invocations = 1
    /\ ret = results[1]

====
